---- MODULE Spec2Model ----
(***************************************************************************)
(* Model of opencv_with_users.py: the user store (a MongoDB collection),   *)
(* create_user, login, capture_image, upload_and_extract_content and the   *)
(* __main__ pipeline that strings them together.                           *)
(*                                                                         *)
(* Python values are represented as follows.  None is the string None;     *)
(* None and the empty string are the falsy strings.  A text (the OCR       *)
(* result) is a sequence of one-character strings; an optional text is a   *)
(* record [some, text].  A MongoDB document is a record                    *)
(* [username, password, extracted_content]; a document that has no         *)
(* extracted_content field has the empty sequence there.                   *)
(***************************************************************************)
EXTENDS Integers, Sequences, FiniteSets, TLC

VARIABLES user_collection, pc, call, last, first_created, run, cap, ocr

vars == <<user_collection, pc, call, last, first_created, run, cap, ocr>>

storeVars == <<user_collection, pc, call, last, first_created, run, cap>>

(***************************************************************************)
(* Bounds of the model.                                                    *)
(***************************************************************************)
MaxLen == 2
MaxRecords == 2
MaxAttempts == 2
MaxResults == 2

(***************************************************************************)
(* Values.                                                                 *)
(***************************************************************************)
None == "<None>"

Falsy(x) == x \in {None, ""}

Or(x, y) == IF Falsy(x) THEN y ELSE x

Usernames == {"u1", "u2"}

Passwords == {"p1", "p2"}

UserInputs == Usernames \cup {None}

PasswordInputs == Passwords \cup {None}

UserReplies == Usernames

PasswordReplies == Passwords

Chars == {"a", "\n", "\r"}

SeqsUpTo(S, n) == UNION {[1..k -> S] : k \in 0..n}

Texts == SeqsUpTo(Chars, MaxLen)

Absent == [some |-> FALSE, text |-> <<>>]

Some(t) == [some |-> TRUE, text |-> t]

Min(a, b) == IF a < b THEN a ELSE b

(***************************************************************************)
(* The MongoDB collection user_collection: a sequence of documents in      *)
(* insertion order.                                                        *)
(***************************************************************************)
Doc(u, p) == [username |-> u, password |-> p, extracted_content |-> <<>>]

\* user_collection.find_one({"username": username}): the position of the
\* first document the filter matches, 0 for None.
FindByUsername(coll, u) ==
    IF \E i \in DOMAIN coll : coll[i].username = u
    THEN CHOOSE i \in DOMAIN coll :
            /\ coll[i].username = u
            /\ \A j \in 1..(i - 1) : coll[j].username # u
    ELSE 0

\* user_collection.find_one({"username": username, "password": password})
FindByCredentials(coll, u, p) ==
    IF \E i \in DOMAIN coll : coll[i].username = u /\ coll[i].password = p
    THEN CHOOSE i \in DOMAIN coll :
            /\ coll[i].username = u /\ coll[i].password = p
            /\ \A j \in 1..(i - 1) : ~(coll[j].username = u /\ coll[j].password = p)
    ELSE 0

\* user_collection.insert_one(user_data)
InsertOne(coll, d) == Append(coll, d)

\* user_collection.update_one({"username": u}, {"$push": {"extracted_content": rec}})
\* updates the first matching document, and nothing when none matches.
UpdateOnePush(coll, u, rec) ==
    LET i == FindByUsername(coll, u)
    IN  IF i = 0 THEN coll
        ELSE [coll EXCEPT ![i].extracted_content = Append(@, rec)]

(***************************************************************************)
(* str.replace(old, '') on a text, and the cleaning of line 198.           *)
(***************************************************************************)
RECURSIVE Remove(_, _)
Remove(t, ch) ==
    IF t = <<>> THEN <<>>
    ELSE IF Head(t) = ch THEN Remove(Tail(t), ch)
         ELSE <<Head(t)>> \o Remove(Tail(t), ch)

CleanLFOnly(t) == Remove(t, "\n")

Clean(t) == Remove(Remove(t, "\n"), "\r")

(***************************************************************************)
(* create_user(user_input, password_input), lines 103-132.  user_reply and *)
(* password_reply are what input() and getpass() return if they are asked. *)
(* The result is the collection afterwards and what the caller sees.       *)
(***************************************************************************)
CreateUserNoCheck(coll, user_input, password_input, user_reply, password_reply) ==
    LET username == Or(user_input, user_reply)
        password == Or(password_input, password_reply)
    IN  [coll |-> InsertOne(coll, Doc(username, password)),
         outcome |-> "return", username |-> username, password |-> password]

CreateUserOverwrite(coll, user_input, password_input, user_reply, password_reply) ==
    LET username == Or(user_input, user_reply)
        password == Or(password_input, password_reply)
        i == FindByUsername(coll, username)
    IN  IF i # 0
        THEN [coll |-> [coll EXCEPT ![i].password = password],
              outcome |-> "RuntimeError", username |-> username, password |-> password]
        ELSE [coll |-> InsertOne(coll, Doc(username, password)),
              outcome |-> "return", username |-> username, password |-> password]

CreateUserSwapped(coll, user_input, password_input, user_reply, password_reply) ==
    LET username == Or(user_input, user_reply)
        password == Or(password_input, password_reply)
    IN  IF FindByUsername(coll, username) # 0
        THEN [coll |-> coll,
              outcome |-> "RuntimeError", username |-> username, password |-> password]
        ELSE [coll |-> InsertOne(coll, Doc(password, username)),
              outcome |-> "return", username |-> username, password |-> password]

CreateUser(coll, user_input, password_input, user_reply, password_reply) ==
    LET username == Or(user_input, user_reply)
        password == Or(password_input, password_reply)
    IN  IF FindByUsername(coll, username) # 0
        THEN \* raise RuntimeError, caught at line 130 and raised again
             [coll |-> coll,
              outcome |-> "RuntimeError", username |-> username, password |-> password]
        ELSE [coll |-> InsertOne(coll, Doc(username, password)),
              outcome |-> "return", username |-> username, password |-> password]

(***************************************************************************)
(* One pass of the while loop of login, lines 151-163: the credentials     *)
(* tried and whether find_one found them.                                  *)
(***************************************************************************)
LoginAttempt(coll, user_input, password_input, user_reply, password_reply) ==
    LET username == Or(user_input, user_reply)
        password == Or(password_input, password_reply)
    IN  [found |-> FindByCredentials(coll, username, password) # 0,
         username |-> username, password |-> password]

(***************************************************************************)
(* capture_image(), lines 79-100.  opened is what cap.isOpened() answers   *)
(* and ret what cap.read() answers.  released tells whether cap.release()  *)
(* was called before the function returned.                                *)
(***************************************************************************)
CaptureImage(opened, ret) ==
    IF ~opened
    THEN [acquired |-> TRUE, frame |-> FALSE, released |-> FALSE]
    ELSE IF ~ret
         THEN [acquired |-> TRUE, frame |-> FALSE, released |-> FALSE]
         ELSE [acquired |-> TRUE, frame |-> TRUE, released |-> TRUE]

(***************************************************************************)
(* The OCR endpoint's answer to a POST: the status code and the body.  A   *)
(* body is not JSON, or a JSON object with or without a ParsedResults      *)
(* array, whose elements are objects with or without a ParsedText.         *)
(***************************************************************************)
StatusCodes == {200, 201, 400, 500}

ParsedResult(has, t) == [has_ParsedText |-> has, ParsedText |-> t]

FirstResults == {ParsedResult(TRUE, t) : t \in Texts} \cup {ParsedResult(FALSE, <<>>)}

OtherResults == {ParsedResult(TRUE, <<"a">>), ParsedResult(FALSE, <<>>)}

ParsedResultsLists ==
    {<<>>} \cup
    UNION {{<<f>> \o rest : f \in FirstResults, rest \in [1..k -> OtherResults]} :
              k \in 0..(MaxResults - 1)}

Body(json, has, results) ==
    [is_json |-> json, has_ParsedResults |-> has, ParsedResults |-> results]

Bodies ==
    {Body(FALSE, FALSE, <<>>), Body(TRUE, FALSE, <<>>)}
    \cup {Body(TRUE, TRUE, rs) : rs \in ParsedResultsLists}

Responses == [status_code : StatusCodes, body : Bodies]

Raised(kind, msg, reqs) ==
    [outcome |-> kind, message |-> msg, value |-> Absent, requests |-> reqs]

Returned(v, reqs) ==
    [outcome |-> "return", message |-> "", value |-> v, requests |-> reqs]

\* Lines 70-76: response.json() and the validation of the parsed body.
ParseBodyLastResult(body, reqs) ==
    IF ~body.is_json THEN Raised("JSONDecodeError", "", reqs)
    ELSE IF ~body.has_ParsedResults \/ body.ParsedResults = <<>>
         THEN Returned(Absent, reqs)
         ELSE LET r == body.ParsedResults[Len(body.ParsedResults)]
              IN  IF ~r.has_ParsedText THEN Raised("KeyError", "ParsedText", reqs)
                  ELSE Returned(Some(r.ParsedText), reqs)

ParseBody(body, reqs) ==
    IF ~body.is_json THEN Raised("JSONDecodeError", "", reqs)
    ELSE IF ~body.has_ParsedResults \/ body.ParsedResults = <<>>
         THEN Returned(Absent, reqs)
         ELSE IF ~body.ParsedResults[1].has_ParsedText
              THEN Raised("KeyError", "ParsedText", reqs)
              ELSE Returned(Some(body.ParsedResults[1].ParsedText), reqs)

\* Lines 63-69: the classification by status code.
HandleResponseOnly200(response, reqs) ==
    IF response.status_code = 200 THEN ParseBody(response.body, reqs)
    ELSE Returned(Absent, reqs)

HandleResponse(response, reqs) ==
    IF response.status_code = 200 THEN ParseBody(response.body, reqs)
    ELSE IF response.status_code = 400 THEN ParseBody(response.body, reqs)
         ELSE Returned(Absent, reqs)

\* Lines 50-61: the request posted, the local file taking precedence.
FileRequest(path, api_key, language) ==
    [kind |-> "file", source |-> path, apikey |-> api_key, language |-> language]

UrlRequest(url, api_key, language) ==
    [kind |-> "url", source |-> url, apikey |-> api_key, language |-> language]

(***************************************************************************)
(* upload_and_extract_content(image_url, local_file_path, api_key,         *)
(* language), lines 27-76.  readable tells whether open(local_file_path)   *)
(* succeeds, response is what the endpoint answers.  The result is what    *)
(* the caller sees and the requests posted to the endpoint.                *)
(***************************************************************************)
UploadImageCheckFirst(image_url, local_file_path, api_key, language, readable, response) ==
    IF Falsy(image_url) /\ Falsy(local_file_path)
    THEN Raised("ValueError", "Either image URL or local file path must be provided", <<>>)
    ELSE IF Falsy(api_key)
    THEN Raised("ValueError", "API key is required", <<>>)
    ELSE IF ~Falsy(local_file_path)
    THEN IF ~readable THEN Raised("OSError", "", <<>>)
         ELSE HandleResponse(response, <<FileRequest(local_file_path, api_key, language)>>)
    ELSE HandleResponse(response, <<UrlRequest(image_url, api_key, language)>>)

UploadUrlFirst(image_url, local_file_path, api_key, language, readable, response) ==
    IF Falsy(api_key)
    THEN Raised("ValueError", "API key is required", <<>>)
    ELSE IF Falsy(image_url) /\ Falsy(local_file_path)
    THEN Raised("ValueError", "Either image URL or local file path must be provided", <<>>)
    ELSE IF ~Falsy(image_url)
    THEN HandleResponse(response, <<UrlRequest(image_url, api_key, language)>>)
    ELSE IF ~readable THEN Raised("OSError", "", <<>>)
         ELSE HandleResponse(response, <<FileRequest(local_file_path, api_key, language)>>)

UploadAndExtractContent(image_url, local_file_path, api_key, language, readable, response) ==
    IF Falsy(api_key)
    THEN Raised("ValueError", "API key is required", <<>>)
    ELSE IF Falsy(image_url) /\ Falsy(local_file_path)
    THEN Raised("ValueError", "Either image URL or local file path must be provided", <<>>)
    ELSE IF ~Falsy(local_file_path)
    THEN IF ~readable THEN Raised("OSError", "", <<>>)
         ELSE HandleResponse(response, <<FileRequest(local_file_path, api_key, language)>>)
    ELSE HandleResponse(response, <<UrlRequest(image_url, api_key, language)>>)

(***************************************************************************)
(* State.                                                                  *)
(*   user_collection  the documents of db["users"]                         *)
(*   pc               where the program is: "idle" between calls, "login"  *)
(*                    inside the loop of login, "main_capture" and         *)
(*                    "main_ocr" inside the pipeline                       *)
(*   call             the arguments of the login call in progress, the     *)
(*                    failed attempts it has made, and who called it       *)
(*   last             the latest create_user or login call made directly   *)
(*                    and what it gave                                     *)
(*   first_created    the (username, password) pairs of the successful     *)
(*                    creates, the first per username                      *)
(*   run              the latest run of the pipeline                       *)
(*   cap              the latest capture_image call                        *)
(*   ocr              the latest direct upload_and_extract_content call    *)
(***************************************************************************)
NoCall == [user_input |-> None, password_input |-> None, attempts |-> 0, caller |-> ""]

NoLast == [op |-> "", user_input |-> None, password_input |-> None,
           outcome |-> "", username |-> None, password |-> None]

NoRun == [choice |-> "", api_key |-> None, username |-> None, created |-> FALSE,
          captured_image |-> "", requests |-> <<>>, extracted_content |-> Absent,
          appended |-> FALSE, exit |-> ""]

NoCap == [called |-> FALSE, opened |-> FALSE, ret |-> FALSE,
          acquired |-> FALSE, frame |-> FALSE, released |-> FALSE]

NoOcr == [called |-> FALSE, image_url |-> None, local_file_path |-> None,
          api_key |-> None, readable |-> FALSE,
          response |-> [status_code |-> 200, body |-> Body(FALSE, FALSE, <<>>)],
          result |-> Returned(Absent, <<>>)]

Init ==
    /\ user_collection = <<>>
    /\ pc = "idle"
    /\ call = NoCall
    /\ last = NoLast
    /\ first_created = {}
    /\ run = NoRun
    /\ cap = NoCap
    /\ ocr = NoOcr

\* The number of extracted_content records in the whole collection.
RECURSIVE TotalRecords(_)
TotalRecords(coll) ==
    IF coll = <<>> THEN 0
    ELSE Len(Head(coll).extracted_content) + TotalRecords(Tail(coll))

Remember(created, r) ==
    IF r.outcome = "return" /\ ~\E c \in created : c.username = r.username
    THEN created \cup {[username |-> r.username, password |-> r.password]}
    ELSE created

CapOf(opened, ret) ==
    LET c == CaptureImage(opened, ret)
    IN  [called |-> TRUE, opened |-> opened, ret |-> ret,
         acquired |-> c.acquired, frame |-> c.frame, released |-> c.released]

(***************************************************************************)
(* Direct calls of the functions, as the tests make them.                  *)
(***************************************************************************)
CallCreateUser(user_input, password_input, user_reply, password_reply) ==
    /\ pc = "idle"
    /\ LET r == CreateUser(user_collection, user_input, password_input,
                           user_reply, password_reply)
       IN  /\ user_collection' = r.coll
           /\ first_created' = Remember(first_created, r)
           /\ last' = [op |-> "create_user", user_input |-> user_input,
                       password_input |-> password_input, outcome |-> r.outcome,
                       username |-> r.username, password |-> r.password]
    /\ run' = NoRun
    /\ cap' = NoCap
    /\ UNCHANGED <<pc, call, ocr>>

CallLogin(user_input, password_input) ==
    /\ pc = "idle"
    /\ pc' = "login"
    /\ call' = [user_input |-> user_input, password_input |-> password_input,
                attempts |-> 0, caller |-> "test"]
    /\ last' = NoLast
    /\ run' = NoRun
    /\ cap' = NoCap
    /\ UNCHANGED <<user_collection, first_created, ocr>>

\* One pass of the loop of login; a failed pass goes round again.
LoginPass(user_reply, password_reply) ==
    /\ pc = "login"
    /\ LET a == LoginAttempt(user_collection, call.user_input, call.password_input,
                             user_reply, password_reply)
       IN  IF a.found
           THEN /\ call' = NoCall
                /\ IF call.caller = "main"
                   THEN /\ pc' = "main_capture"
                        /\ run' = [run EXCEPT !.username = a.username]
                        /\ last' = last
                   ELSE /\ pc' = "idle"
                        /\ run' = run
                        /\ last' = [op |-> "login", user_input |-> call.user_input,
                                    password_input |-> call.password_input,
                                    outcome |-> "return", username |-> a.username,
                                    password |-> a.password]
           ELSE /\ call' = [call EXCEPT !.attempts = Min(@ + 1, MaxAttempts)]
                /\ UNCHANGED <<pc, run, last>>
    /\ UNCHANGED <<user_collection, first_created, cap, ocr>>

CallCaptureImage(opened, ret) ==
    /\ pc = "idle"
    /\ cap' = CapOf(opened, ret)
    /\ last' = NoLast
    /\ run' = NoRun
    /\ UNCHANGED <<user_collection, pc, call, first_created, ocr>>

\* upload_and_extract_content applied to the arguments and the endpoint's
\* answer that ocr holds.
CallUpload ==
    /\ ~ocr.called
    /\ ocr' = [ocr EXCEPT
                 !.called = TRUE,
                 !.result = UploadAndExtractContent(ocr.image_url, ocr.local_file_path,
                                                    ocr.api_key, "eng", ocr.readable,
                                                    ocr.response)]
    /\ UNCHANGED storeVars

(***************************************************************************)
(* The pipeline of __main__, lines 166-217.                                *)
(***************************************************************************)
Upper(c) == IF c = "l" THEN "L" ELSE IF c = "c" THEN "C" ELSE c

Choices == {"L", "l", "C", "X"}

ApiKeys == {None, "", "K"}

\* Lines 168-179: the choice, and create_user() when it is 'C'.
StartMain(choice, api_key, user_reply, password_reply) ==
    /\ pc = "idle"
    /\ TotalRecords(user_collection) < MaxRecords
    /\ last' = NoLast
    /\ cap' = NoCap
    /\ LET started == [NoRun EXCEPT !.choice = Upper(choice), !.api_key = api_key]
       IN  IF Upper(choice) = "L"
           THEN /\ pc' = "login"
                /\ call' = [NoCall EXCEPT !.caller = "main"]
                /\ run' = started
                /\ UNCHANGED <<user_collection, first_created>>
           ELSE IF Upper(choice) = "C"
           THEN LET r == CreateUser(user_collection, None, None,
                                    user_reply, password_reply)
                IN  /\ user_collection' = r.coll
                    /\ first_created' = Remember(first_created, r)
                    /\ call' = call
                    /\ IF r.outcome = "return"
                       THEN /\ pc' = "main_capture"
                            /\ run' = [started EXCEPT !.username = r.username,
                                                      !.created = TRUE]
                       ELSE /\ pc' = "idle"
                            /\ run' = [started EXCEPT !.exit = "Error"]
           ELSE /\ pc' = "idle"
                /\ run' = [started EXCEPT !.exit = "Invalid choice"]
                /\ UNCHANGED <<user_collection, first_created, call>>
    /\ UNCHANGED ocr

\* Where the pipeline goes after capture_image, line 184.
AfterCaptureAlways(frame) == "main_ocr"

AfterCapture(frame) == IF frame THEN "main_ocr" ELSE "idle"

\* Lines 182-191 and 212-213.
MainCapture(opened, ret) ==
    /\ pc = "main_capture"
    /\ LET c == CapOf(opened, ret)
       IN  /\ cap' = c
           /\ pc' = AfterCapture(c.frame)
           /\ run' = [run EXCEPT
                        !.captured_image = IF c.frame THEN "frame" ELSE "None",
                        !.exit = IF c.frame THEN "" ELSE "Failed to capture an image."]
    /\ UNCHANGED <<user_collection, call, last, first_created, ocr>>

\* Whether the pipeline stores what upload_and_extract_content gave: it
\* returned (no exception reached line 215) and what it returned is not None
\* (line 197).
StoresAlways(r) == TRUE

Stores(r) == r.outcome = "return" /\ r.value.some

\* The record pushed for an extracted text, lines 198-199.
ExtractedArrayContent(t) == [text |-> Clean(t)]

\* Lines 194-210 and 215-217: the OCR call on the saved image and, if it gave
\* a text, the $push of the cleaned text to the user's document.
MainExtract(readable, response) ==
    /\ pc = "main_ocr"
    /\ LET r == UploadAndExtractContent(None, "captured_image.jpg", run.api_key,
                                        "eng", readable, response)
       IN  /\ user_collection' =
                 IF Stores(r)
                 THEN UpdateOnePush(user_collection, run.username,
                                    ExtractedArrayContent(r.value.text))
                 ELSE user_collection
           /\ run' = [run EXCEPT
                        !.requests = r.requests,
                        !.extracted_content = r.value,
                        !.appended = Stores(r),
                        !.exit = IF r.outcome # "return" THEN "Error"
                                 ELSE IF ~r.value.some THEN "Failed to extract content."
                                 ELSE ""]
    /\ pc' = "idle"
    /\ UNCHANGED <<call, last, first_created, cap, ocr>>

MainApiKeys == {None, "K"}

MainStatusCodes == {200, 500}

MainBodies ==
    {Body(FALSE, FALSE, <<>>), Body(TRUE, FALSE, <<>>), Body(TRUE, TRUE, <<>>)}
    \cup {Body(TRUE, TRUE, <<f>>) : f \in FirstResults}

MainResponses == [status_code : MainStatusCodes, body : MainBodies]

RepliesFor(input, replies) == IF Falsy(input) THEN replies ELSE {None}

Next ==
    \/ \E u \in UserInputs, p \in PasswordInputs :
          \E ur \in RepliesFor(u, UserReplies), pr \in RepliesFor(p, PasswordReplies) :
             CallCreateUser(u, p, ur, pr)
    \/ \E u \in UserInputs, p \in PasswordInputs : CallLogin(u, p)
    \/ \E ur \in RepliesFor(call.user_input, UserReplies),
          pr \in RepliesFor(call.password_input, PasswordReplies) : LoginPass(ur, pr)
    \/ \E opened \in BOOLEAN, ret \in BOOLEAN : CallCaptureImage(opened, ret)
    \/ \E c \in Choices, k \in MainApiKeys,
          ur \in UserReplies, pr \in PasswordReplies : StartMain(c, k, ur, pr)
    \/ \E opened \in BOOLEAN, ret \in BOOLEAN : MainCapture(opened, ret)
    \/ \E readable \in BOOLEAN, response \in MainResponses :
          MainExtract(readable, response)

Spec == Init /\ [][Next]_vars

ImageUrls == {None, "", "https://example.com/sample_image.jpg"}

LocalFilePaths == {None, "", "test_image.jpg"}

OcrInputs ==
    [called : {FALSE}, image_url : ImageUrls, local_file_path : LocalFilePaths,
     api_key : ApiKeys, readable : BOOLEAN, response : Responses,
     result : {Returned(Absent, <<>>)}]

InitExtract ==
    /\ user_collection = <<>>
    /\ pc = "idle"
    /\ call = NoCall
    /\ last = NoLast
    /\ first_created = {}
    /\ run = NoRun
    /\ cap = NoCap
    /\ ocr \in OcrInputs

NextExtract == CallUpload

SpecExtract == InitExtract /\ [][NextExtract]_vars

(***************************************************************************)
(* Properties.                                                             *)
(***************************************************************************)
Present(coll, u) == \E i \in DOMAIN coll : coll[i].username = u

DocsOf(coll, u) == {i \in DOMAIN coll : coll[i].username = u}

\* The documents that hold extracted content, with what they hold.
Contents(coll) ==
    SelectSeq([i \in DOMAIN coll |->
                  <<coll[i].username, coll[i].extracted_content>>],
              LAMBDA d : d[2] # <<>>)

IsLineBreak(ch) == ch \in {"\n", "\r"}

WithoutLineBreaks(t) == SelectSeq(t, LAMBDA ch : ~IsLineBreak(ch))

\* A step that is a direct call of create_user: the only step from "idle"
\* that leaves a create_user record in last.
CreateUserStep == pc = "idle" /\ last'.op = "create_user"

\* C1: create_user on a username that is already in the store fails with
\* RuntimeError "User already exists." and leaves the store as it was; so the
\* store never holds two documents of one username, and the password stored
\* for a username is the one of the first successful create.
C1_DuplicateCreateFails ==
    /\ [](\A i \in DOMAIN user_collection :
             /\ DocsOf(user_collection, user_collection[i].username) = {i}
             /\ [username |-> user_collection[i].username,
                 password |-> user_collection[i].password] \in first_created)
    /\ [][(CreateUserStep /\ Present(user_collection, last'.username))
             => (last'.outcome = "RuntimeError"
                 /\ user_collection' = user_collection)]_vars

C1_Witness ==
    /\ last.op = "create_user"
    /\ last.outcome = "RuntimeError"
    /\ \E i \in DOMAIN user_collection :
          /\ user_collection[i].username = last.username
          /\ user_collection[i].password # last.password

\* C2: create_user with a non-empty username that is not in the store and a
\* non-empty password returns that username, and find_one by that username
\* then gives a document with that username and that password.
C2_CreateThenFind ==
    [][(/\ CreateUserStep
        /\ ~Falsy(last'.user_input)
        /\ ~Falsy(last'.password_input)
        /\ ~Present(user_collection, last'.user_input))
          => /\ last'.outcome = "return"
             /\ last'.username = last'.user_input
             /\ LET i == FindByUsername(user_collection', last'.user_input)
                IN  /\ i # 0
                    /\ user_collection'[i].username = last'.user_input
                    /\ user_collection'[i].password = last'.password_input]_vars

C2_Witness ==
    /\ last.op = "create_user"
    /\ last.outcome = "return"
    /\ last.user_input = "u2"
    /\ last.password_input = "p1"
    /\ Len(user_collection) = 2
    /\ user_collection[2] = Doc("u2", "p1")

\* C3: login called with an explicit username and password that match no
\* document returns or raises on the first failed attempt: such a call is
\* never still in its loop after an attempt has failed.
C3_LoginEndsOnFirstFailure ==
    (/\ pc = "login"
     /\ call.caller = "test"
     /\ ~Falsy(call.user_input)
     /\ ~Falsy(call.password_input)) => call.attempts = 0

Neither(o) == Falsy(o.image_url) /\ Falsy(o.local_file_path)

Both(o) == ~Falsy(o.image_url) /\ ~Falsy(o.local_file_path)

NoSourceError(r) ==
    /\ r.outcome = "ValueError"
    /\ r.message = "Either image URL or local file path must be provided"
    /\ r.requests = <<>>

\* C4 as claimed: with a non-empty api_key, upload_and_extract_content raises
\* ValueError "Either image URL or local file path must be provided" and
\* sends no request whenever not exactly one of image_url / local_file_path
\* is given, both when neither and when both are given.
C4_ExactlyOneSource ==
    (ocr.called /\ ~Falsy(ocr.api_key) /\ (Neither(ocr) \/ Both(ocr)))
       => NoSourceError(ocr.result)

\* C4 as amended: with a non-empty api_key, upload_and_extract_content raises
\* ValueError exactly when neither image_url nor local_file_path is given,
\* with that message and no request sent; when both are given no ValueError
\* is raised and the one request it can send is the upload of the local file.
C4_NeitherSourceFails ==
    (ocr.called /\ ~Falsy(ocr.api_key))
       => /\ (ocr.result.outcome = "ValueError") <=> Neither(ocr)
          /\ Neither(ocr) => NoSourceError(ocr.result)
          /\ Both(ocr) =>
                \/ ocr.result.requests = <<>> /\ ~ocr.readable
                \/ /\ Len(ocr.result.requests) = 1
                   /\ ocr.result.requests[1].kind = "file"
                   /\ ocr.result.requests[1].source = ocr.local_file_path

C4_Witness ==
    /\ ocr.called
    /\ ocr.api_key = "K"
    /\ ocr.image_url = ""
    /\ ocr.local_file_path = None
    /\ NoSourceError(ocr.result)

HasText(body) ==
    /\ body.is_json
    /\ body.has_ParsedResults
    /\ body.ParsedResults # <<>>
    /\ body.ParsedResults[1].has_ParsedText

ReturnsFirstText(o) ==
    /\ o.result.outcome = "return"
    /\ o.result.value = Some(o.response.body.ParsedResults[1].ParsedText)

\* C5 as claimed: for every response whose status is in the 2xx range and
\* whose JSON body has a non-empty ParsedResults, the call returns
\* ParsedResults[0].ParsedText unchanged, for the URL and for the file source.
C5_Any2xxReturnsText ==
    (/\ ocr.called
     /\ ocr.result.requests # <<>>
     /\ ocr.response.status_code \in 200..299
     /\ HasText(ocr.response.body)) => ReturnsFirstText(ocr)

\* C5 as amended: for every response whose status is 200 (or 400) and whose
\* JSON body has a non-empty ParsedResults whose first element has a
\* ParsedText, the call returns that ParsedText unchanged, for the URL and
\* for the file source; for every other status, the other 2xx codes
\* included, it returns None.
C5_Status200ReturnsText ==
    (ocr.called /\ ocr.result.requests # <<>>)
       => /\ (ocr.response.status_code \in {200, 400} /\ HasText(ocr.response.body))
                => ReturnsFirstText(ocr)
          /\ ocr.response.status_code \notin {200, 400}
                => (ocr.result.outcome = "return" /\ ocr.result.value = Absent)

C5_Witness ==
    /\ ocr.called
    /\ ocr.result.requests # <<>>
    /\ ocr.result.requests[1].kind = "file"
    /\ ocr.response.status_code = 200
    /\ Len(ocr.response.body.ParsedResults) = 2
    /\ ocr.response.body.ParsedResults[2].has_ParsedText
    /\ ocr.result.outcome = "return"
    /\ ocr.result.value = Some(<<"a", "\n">>)

Malformed(body) ==
    \/ ~body.is_json
    \/ ~body.has_ParsedResults
    \/ body.ParsedResults = <<>>
    \/ ~body.ParsedResults[1].has_ParsedText

\* C6: for every response with a status other than 2xx/400, and for every
\* response with status 2xx or 400 whose body lacks the expected fields (no
\* ParsedResults, an empty ParsedResults, a first result without ParsedText,
\* a body that is not JSON), the call returns None and raises nothing.
C6_FailuresDegradeToNone ==
    (/\ ocr.called
     /\ ocr.result.requests # <<>>
     /\ \/ ocr.response.status_code \notin (200..299) \cup {400}
        \/ Malformed(ocr.response.body))
       => (ocr.result.outcome = "return" /\ ocr.result.value = Absent)

\* C7: with a missing or empty api_key, upload_and_extract_content raises
\* ValueError "API key is required" whatever image source is or is not
\* given, and no request has been sent to the endpoint.
C7_MissingApiKey ==
    (ocr.called /\ Falsy(ocr.api_key))
       => /\ ocr.result.outcome = "ValueError"
          /\ ocr.result.message = "API key is required"
          /\ ocr.result.requests = <<>>

C7_Witness ==
    /\ ocr.called
    /\ ocr.api_key = ""
    /\ Neither(ocr)
    /\ ocr.result.outcome = "ValueError"
    /\ ocr.result.message = "API key is required"

\* C8: when the pipeline runs for an authenticated user u, a frame was
\* captured and the OCR call returned a text t, u's extracted_content becomes
\* what it was with one record appended whose text is t without its newline
\* and carriage-return characters, the other characters in their order; u's
\* username and password, and every other document, stay as they were.
C8_AppendsCleanedText ==
    [][(pc = "main_ocr" /\ run'.extracted_content.some)
          => \E i \in DOMAIN user_collection :
                /\ user_collection[i].username = run.username
                /\ DOMAIN user_collection' = DOMAIN user_collection
                /\ \A j \in DOMAIN user_collection :
                      j # i => user_collection'[j] = user_collection[j]
                /\ user_collection'[i] =
                      [user_collection[i] EXCEPT !.extracted_content =
                          user_collection[i].extracted_content
                             \o <<[text |-> WithoutLineBreaks(
                                               run'.extracted_content.text)]>>]]_vars

C8_Witness ==
    /\ pc = "idle"
    /\ run.appended
    /\ run.extracted_content.text = <<"\r", "a">>
    /\ Len(user_collection) = 2
    /\ user_collection[2].username = run.username
    /\ user_collection[2].extracted_content = <<[text |-> <<>>], [text |-> <<"a">>]>>
    /\ user_collection[1].extracted_content = <<>>

\* C9: whenever capture_image has acquired VideoCapture(0), cap.release()
\* has been called by the time it returns, whether it returns a frame or
\* None.
C9_DeviceReleased == (cap.called /\ cap.acquired) => cap.released

\* C10: in a pipeline run the OCR endpoint is called only after the
\* authentication gave a username and capture_image gave a frame, and the
\* store is appended to only after the OCR call returned a text; if the
\* authentication fails, the capture gives None or the OCR call gives None,
\* the run stops and no document's extracted_content changes.
C10_StagesGated ==
    /\ [](/\ pc = "main_capture" => run.username # None
          /\ pc = "main_ocr" => (run.username # None /\ run.captured_image = "frame")
          /\ run.requests # <<>>
                => (run.username # None /\ run.captured_image = "frame")
          /\ run.appended => (run.requests # <<>> /\ run.extracted_content.some)
          /\ run.exit # "" => (pc = "idle" /\ ~run.appended))
    /\ [][Contents(user_collection') # Contents(user_collection)
             => (pc = "main_ocr" /\ run'.appended)]_vars

C10_Witness ==
    /\ pc = "idle"
    /\ run.choice = "L"
    /\ run.captured_image = "frame"
    /\ run.requests # <<>>
    /\ run.exit = "Failed to extract content."
    /\ Contents(user_collection) # <<>>

====
